---- MODULE Spec2Model ----
(***************************************************************************)
(* Caps negotiation of the audioconvert element                            *)
(* (gst/audioconvert/gstaudioconvert.c): the capability expander           *)
(* gst_audio_convert_transform_caps and the fixation resolver              *)
(* gst_audio_convert_fixate_caps, with the GstStructure / GValue           *)
(* operations they call modelled by what they do to a field.               *)
(***************************************************************************)
EXTENDS Integers, Sequences, FiniteSets, TLC

VARIABLES
  pc,            \* position inside the running function
  caps,          \* transform_caps: the input caps, a sequence of structures
  j,             \* transform_caps: loop index (1-based)
  s,             \* transform_caps: the working structure
  ret,           \* transform_caps: the caps being built
  channels,      \* transform_caps: local gint channels = 0
  allow_mixing,  \* transform_caps: local gboolean allow_mixing
  emitted,       \* transform_caps: every structure handed to gst_caps_merge_structure
  ins,           \* fixate_caps: structure 0 of caps (the fixed input)
  outs,          \* fixate_caps: structure 0 of othercaps (the candidate)
  outs0,         \* fixate_caps: the candidate as it was at the call
  incaps,        \* set_caps: structure 0 of incaps
  outcaps,       \* set_caps: structure 0 of outcaps
  ctx,           \* this->ctx: the formats the converter was prepared with
  set_caps_ret,  \* set_caps: the value returned ("none" before the call)
  prepare_calls, \* calls of audio_convert_prepare_context so far
  inbuf,         \* transform: size and GAP flag of the input buffer
  outbuf,        \* transform: size of the output buffer
  conv,          \* transform: what the call did and returned
  fdmode,        \* GstFDSet: set->mode
  pollfds,       \* GstFDSet: set->pollfds, slot index -> struct pollfd
  last_pollfds,  \* GstFDSet: set->last_pollfds
  free,          \* GstFDSet: set->free
  readfds,       \* GstFDSet: set->readfds
  writefds,      \* GstFDSet: set->writefds
  fd_idx,        \* GstFD: fd->idx of each GstFD
  added,         \* the GstFDs added and not removed since
  last_read,     \* per GstFD: the active argument of its last ctl_read
  last_write     \* per GstFD: the active argument of its last ctl_write

vars == <<pc, caps, j, s, ret, channels, allow_mixing, emitted, ins, outs, outs0,
          incaps, outcaps, ctx, set_caps_ret, prepare_calls, inbuf, outbuf,
          conv, fdmode, pollfds, last_pollfds, free, readfds, writefds,
          fd_idx, added, last_read, last_write>>
fdVars == <<fdmode, pollfds, last_pollfds, free, readfds, writefds, fd_idx,
            added, last_read, last_write>>
convVars == <<incaps, outcaps, ctx, set_caps_ret, prepare_calls, inbuf, outbuf,
              conv>>
capsVars == <<caps, j, s, ret, channels, allow_mixing, emitted>>
fixVars == <<ins, outs, outs0>>

(***************************************************************************)
(* Bounds of the model.                                                    *)
(***************************************************************************)
MaxChannels == 13

(***************************************************************************)
(* GValues.  A field of a structure holds one of these.                    *)
(***************************************************************************)
Absent == [k |-> "absent"]
IntV(v) == [k |-> "int", v |-> v]
BoolV(b) == [k |-> "bool", v |-> b]
RangeV(lo, hi) == [k |-> "range", lo |-> lo, hi |-> hi]
ListV(l) == [k |-> "list", l |-> l]
ArrayV(a) == [k |-> "array", a |-> a]
LayoutsV(items) == [k |-> "llist", items |-> items]

SeqToSet(q) == {q[i] : i \in 1..Len(q)}

\* the values a numeric or boolean GValue admits
ValSet(v) ==
  CASE v.k = "int" -> {v.v}
    [] v.k = "bool" -> {v.v}
    [] v.k = "range" -> v.lo..v.hi
    [] v.k = "list" -> SeqToSet(v.l)
    [] OTHER -> {}

\* gst_value_is_fixed
IsFixed(v) == v.k \in {"int", "bool", "array"}

(***************************************************************************)
(* GstStructure: a name and the fields the element reads or writes.        *)
(***************************************************************************)
FieldsUsed == <<"width", "depth", "rate", "channels", "endianness", "signed">>
AllFields == SeqToSet(FieldsUsed) \cup {"positions"}

EmptyNew(name) ==
  [name |-> name, width |-> Absent, depth |-> Absent, rate |-> Absent,
   channels |-> Absent, endianness |-> Absent, signed |-> Absent,
   positions |-> Absent]

HasField(st, f) == st[f].k # "absent"
SetField(st, f, v) == [st EXCEPT ![f] = v]
RemoveField(st, f) == [st EXCEPT ![f] = Absent]
\* gst_structure_get_int succeeds only on a field holding a plain int
GetInt(st, f) == st[f].k = "int"
GetBoolean(st, f) == st[f].k = "bool"
NFields(st) == Cardinality({f \in AllFields : HasField(st, f)})

\* gst_structure_set (.., GST_TYPE_INT_RANGE, lo, hi): a range needs lo < hi.
\* With lo >= hi the call breaks the GValue precondition; depending on the
\* GLib/GStreamer build the field is left as it was or the bad range is stored.
SetRangeOutcomes(st, f, lo, hi) ==
  IF lo < hi THEN {SetField(st, f, RangeV(lo, hi))}
  ELSE {st, SetField(st, f, RangeV(lo, hi))}

\* is value a a subset of value b (gst_value_compare / gst_value_subtract)
ValueSubset(a, b) ==
  IF a = b THEN TRUE
  ELSE IF a.k \in {"array", "llist"} \/ b.k \in {"array", "llist"}
    THEN b.k = "llist" /\ a.k = "array" /\ a \in SeqToSet(b.items)
  ELSE IF a.k = "range" /\ a.lo > a.hi THEN FALSE
  ELSE ValSet(a) \subseteq ValSet(b)

\* gst_structure_is_subset (subset, superset)
StructureIsSubset(sub, sup) ==
  /\ sub.name = sup.name
  /\ NFields(sup) <= NFields(sub)
  /\ \A f \in AllFields :
       HasField(sup, f) => (HasField(sub, f) /\ ValueSubset(sub[f], sup[f]))

\* gst_caps_is_subset_structure (caps, structure)
CapsIsSubsetStructure(c, st) ==
  \E i \in 1..Len(c) : StructureIsSubset(st, c[i])

\* gst_caps_merge_structure: append unless an entry already covers it
MergeStructure(c, st) ==
  IF CapsIsSubsetStructure(c, st) THEN c ELSE Append(c, st)

(***************************************************************************)
(* Channel positions (gst_audio_get_channel_positions and its validity     *)
(* check, as called from structure_has_fixed_channel_positions).           *)
(***************************************************************************)
PosOrder == <<"FL", "FR", "RL", "RR", "FC", "LFE", "SL", "SR", "RC", "FLC", "FRC">>

\* an array of n GST_AUDIO_CHANNEL_POSITION_NONE
NoneArray(n) == [i \in 1..n |-> "NONE"]
\* a positioned array of n entries; past 11 channels no valid one exists
\* (front-mono conflicts with front-left/right), so the tail repeats mono
DefinedArray(n) ==
  IF n = 1 THEN <<"MONO">>
  ELSE [i \in 1..n |-> IF i <= Len(PosOrder) THEN PosOrder[i] ELSE "MONO"]

\* gst_audio_check_channel_positions
CheckChannelPositions(a) ==
  \/ \A i \in 1..Len(a) : a[i] = "NONE"
  \/ /\ \A i \in 1..Len(a) : a[i] # "NONE"
     /\ \A i, m \in 1..Len(a) : i # m => a[i] # a[m]
     /\ ~("MONO" \in SeqToSet(a) /\ SeqToSet(a) \cap {"FL", "FR"} # {})

\* gst_audio_get_channel_positions: the array, or <<>> for NULL
GetChannelPositions(st) ==
  IF ~GetInt(st, "channels") \/ st.channels.v <= 0 THEN <<>>
  ELSE IF ~HasField(st, "positions") THEN
    (IF st.channels.v = 1 THEN <<"MONO">>
     ELSE IF st.channels.v = 2 THEN <<"FL", "FR">> ELSE <<>>)
  ELSE IF st.positions.k # "array" \/ Len(st.positions.a) # st.channels.v THEN <<>>
  ELSE IF CheckChannelPositions(st.positions.a) THEN st.positions.a ELSE <<>>

\* structure_has_fixed_channel_positions: ok is the return value,
\* unpositioned the out parameter (written only where the code writes it)
StructureHasFixedChannelPositionsNoImplicit(st) ==
  IF ~GetInt(st, "channels") THEN [ok |-> FALSE, unpositioned |-> FALSE]
  ELSE IF ~HasField(st, "positions") \/ ~IsFixed(st.positions)
    THEN [ok |-> FALSE, unpositioned |-> FALSE]
  ELSE LET pos == GetChannelPositions(st) IN
    [ok |-> TRUE, unpositioned |-> (pos # <<>> /\ pos[1] = "NONE")]

StructureHasFixedChannelPositions(st) ==
  IF ~GetInt(st, "channels") THEN [ok |-> FALSE, unpositioned |-> FALSE]
  ELSE IF (~HasField(st, "positions") \/ ~IsFixed(st.positions))
          /\ st.channels.v <= 8
    THEN [ok |-> FALSE, unpositioned |-> FALSE]
  ELSE IF ~HasField(st, "positions") \/ ~IsFixed(st.positions)
    THEN [ok |-> TRUE, unpositioned |-> TRUE]
  ELSE LET pos == GetChannelPositions(st) IN
    [ok |-> TRUE, unpositioned |-> (pos # <<>> /\ pos[1] = "NONE")]

(***************************************************************************)
(* Helpers of the capability expander.                                     *)
(***************************************************************************)
\* multiples of 8 from min up to max
WidthSeq(min, max) ==
  IF min > max THEN <<>>
  ELSE [i \in 1..(((max - min) \div 8) + 1) |-> min + 8 * (i - 1)]

SetStructureWidths(st, min, max) ==
  IF min = max THEN SetField(st, "width", IntV(min))
  ELSE SetField(st, "width", ListV(WidthSeq(min, max)))

SetStructureWidths32And64(st) == SetField(st, "width", ListV(<<32, 64>>))

\* a variant that also opens the integer width, as if that were lossless
MakeLosslessChangesAnyWidth(st, isfloat) ==
  LET e == SetField(st, "endianness", ListV(<<1234, 4321>>)) IN
  IF isfloat
    THEN SetStructureWidths32And64(
           RemoveField(RemoveField(e, "depth"), "signed"))
    ELSE SetStructureWidths(SetField(e, "signed", ListV(<<1, 0>>)), 8, 32)

MakeLosslessChanges(st, isfloat) ==
  LET e == SetField(st, "endianness", ListV(<<1234, 4321>>)) IN
  IF isfloat
    THEN SetStructureWidths32And64(
           RemoveField(RemoveField(e, "depth"), "signed"))
    ELSE SetField(e, "signed", ListV(<<1, 0>>))

StripWidth64Id(st) == st

StripWidth64(st) ==
  IF st.width.k = "list"
    THEN SetField(st, "width",
           ListV(SelectSeq(st.width.l, LAMBDA w : w # 64)))
    ELSE st

\* the structure append_with_other_format builds and merges
OtherFormat(st, isfloat) ==
  IF isfloat
    THEN StripWidth64(MakeLosslessChanges([st EXCEPT !.name = "int"], FALSE))
    ELSE MakeLosslessChanges([st EXCEPT !.name = "float"], TRUE)

(***************************************************************************)
(* gst_audio_convert_transform_caps, one action per tier.                  *)
(***************************************************************************)
\* a depth default that ignores the width (what a slip would do)
StripFieldsDepth32(structure) ==
  LET kept == [f \in DOMAIN structure |->
                 IF f = "positions" THEN Absent ELSE structure[f]] IN
  IF structure.name # "float" /\ ~HasField(kept, "depth")
     /\ GetInt(kept, "width")
    THEN SetField(kept, "depth", IntV(32))
    ELSE kept

\* a strip that forgets the rate
StripFieldsNoRate(structure) ==
  LET kept == [f \in DOMAIN structure |->
                 IF f \in {"positions", "rate"} THEN Absent
                 ELSE structure[f]] IN
  IF structure.name # "float" /\ ~HasField(kept, "depth")
     /\ GetInt(kept, "width")
    THEN SetField(kept, "depth", IntV(kept.width.v))
    ELSE kept

\* lines 594-609: keep the fields used, default depth to a fixed width
StripFields(structure) ==
  LET kept == [f \in DOMAIN structure |->
                 IF f = "positions" THEN Absent ELSE structure[f]] IN
  IF structure.name # "float" /\ ~HasField(kept, "depth")
     /\ GetInt(kept, "width")
    THEN SetField(kept, "depth", IntV(kept.width.v))
    ELSE kept

\* lines 622-631: widen width and depth upwards (integer only)
GrowWidthDepthFrom8(st, structure) ==
  IF structure.name = "float" THEN {st}
  ELSE
    LET w == IF GetInt(structure, "width")
               THEN SetStructureWidths(st, 8, 32) ELSE st
    IN IF GetInt(structure, "depth")
         THEN (IF structure.depth.v = 32
                 THEN {SetField(w, "depth", IntV(32))}
                 ELSE SetRangeOutcomes(w, "depth", structure.depth.v, 32))
         ELSE {w}

GrowWidthDepth(st, structure) ==
  IF structure.name = "float" THEN {st}
  ELSE
    LET w == IF GetInt(structure, "width")
               THEN SetStructureWidths(st, structure.width.v, 32) ELSE st
    IN IF GetInt(structure, "depth")
         THEN (IF structure.depth.v = 32
                 THEN {SetField(w, "depth", IntV(32))}
                 ELSE SetRangeOutcomes(w, "depth", structure.depth.v, 32))
         ELSE {w}

\* lines 633-640
AllowMixing(structure) ==
  IF GetInt(structure, "channels")
    THEN LET r == StructureHasFixedChannelPositions(structure) IN
         IF r.ok THEN ~r.unpositioned ELSE TRUE
    ELSE TRUE

\* lines 634: channels keeps its old value when the field is no plain int
ChannelsOf(structure, old) ==
  IF GetInt(structure, "channels") THEN structure.channels.v ELSE old

\* lines 643-646 and 689-692: pin the channel count and the layout
PinChannels(st, structure, ch) ==
  LET c == SetField(st, "channels", IntV(ch)) IN
  IF HasField(structure, "positions")
    THEN SetField(c, "positions", structure.positions) ELSE c

\* lines 642-656: the channels of the growing tier
GrowChannelsFrom1(st, structure, mixing, ch) ==
  IF ~mixing THEN {PinChannels(st, structure, ch)}
  ELSE {RemoveField(SetField(st, "channels", RangeV(1, 11)), "positions")}

GrowChannels(st, structure, mixing, ch) ==
  IF ~mixing THEN {PinChannels(st, structure, ch)}
  ELSE {RemoveField(x, "positions") :
          x \in IF ch = 0 THEN SetRangeOutcomes(st, "channels", 1, 11)
                ELSE IF ch = 11 THEN {SetField(st, "channels", IntV(11))}
                ELSE SetRangeOutcomes(st, "channels", ch, 11)}

\* lines 684-693: the channels of the reducing tier
ReduceChannelsAlways(st, structure, mixing, ch) ==
  RemoveField(SetField(st, "channels", RangeV(1, 11)), "positions")

ReduceChannels(st, structure, mixing, ch) ==
  IF mixing
    THEN RemoveField(SetField(st, "channels", RangeV(1, 11)), "positions")
    ELSE PinChannels(st, structure, ch)

\* lines 665-679: the structure of the depth-reducing tier
ReduceDepth(st, isfloat) ==
  IF isfloat THEN OtherFormat(SetStructureWidths32And64(st), TRUE)
  ELSE SetField(SetStructureWidths(st, 16, 32), "depth", RangeV(16, 32))

\* lines 702-703: every integer width and depth
FullIntegerRange(st) ==
  SetField(SetStructureWidths(st, 8, 32), "depth", RangeV(1, 32))

\* one call of gst_caps_merge_structure, with its record in emitted
Emit(tier, st) ==
  /\ ret' = MergeStructure(ret, st)
  /\ emitted' = Append(emitted,
       [tier |-> tier, j |-> j, st |-> st,
        kept |-> ~CapsIsSubsetStructure(ret, st)])

IsFloat == caps[j].name = "float"

LoopHead ==
  /\ pc = "loop"
  /\ IF j > Len(caps)
       THEN pc' = "done" /\ UNCHANGED <<j, s>>
       ELSE IF j > 1 /\ CapsIsSubsetStructure(ret, caps[j])
         THEN pc' = "loop" /\ j' = j + 1 /\ UNCHANGED s
         ELSE pc' = "tierA" /\ s' = StripFields(caps[j]) /\ UNCHANGED j
  /\ UNCHANGED <<caps, ret, channels, allow_mixing, emitted, fixVars, convVars, fdVars>>

TierA ==
  /\ pc = "tierA"
  /\ s' = MakeLosslessChanges(s, IsFloat)
  /\ Emit("A", s')
  /\ pc' = "tierAx"
  /\ UNCHANGED <<caps, j, channels, allow_mixing, fixVars, convVars, fdVars>>

TierAx ==
  /\ pc = "tierAx"
  /\ Emit("Ax", OtherFormat(s, IsFloat))
  /\ pc' = "tierB"
  /\ UNCHANGED <<caps, j, s, channels, allow_mixing, fixVars, convVars, fdVars>>

TierB ==
  /\ pc = "tierB"
  /\ allow_mixing' = AllowMixing(caps[j])
  /\ channels' = ChannelsOf(caps[j], channels)
  /\ \E g \in GrowWidthDepth(s, caps[j]) :
       \E c \in GrowChannels(g, caps[j], allow_mixing', channels') :
         s' = c
  /\ Emit("B", s')
  /\ pc' = "tierBx"
  /\ UNCHANGED <<caps, j, fixVars, convVars, fdVars>>

TierBx ==
  /\ pc = "tierBx"
  /\ Emit("Bx", OtherFormat(s, IsFloat))
  /\ pc' = "tierC"
  /\ UNCHANGED <<caps, j, s, channels, allow_mixing, fixVars, convVars, fdVars>>

TierC ==
  /\ pc = "tierC"
  /\ IF ~GetInt(caps[j], "width") \/ caps[j].width.v > 16
       THEN Emit(IF IsFloat THEN "Cx" ELSE "C", ReduceDepth(s, IsFloat))
       ELSE UNCHANGED <<ret, emitted>>
  /\ pc' = "tierD"
  /\ UNCHANGED <<caps, j, s, channels, allow_mixing, fixVars, convVars, fdVars>>

TierD ==
  /\ pc = "tierD"
  /\ s' = ReduceChannels(s, caps[j], allow_mixing, channels)
  /\ Emit("D", s')
  /\ pc' = "tierDx"
  /\ UNCHANGED <<caps, j, channels, allow_mixing, fixVars, convVars, fdVars>>

TierDx ==
  /\ pc = "tierDx"
  /\ Emit("Dx", OtherFormat(s, IsFloat))
  /\ pc' = "tierE"
  /\ UNCHANGED <<caps, j, s, channels, allow_mixing, fixVars, convVars, fdVars>>

TierE ==
  /\ pc = "tierE"
  /\ s' = FullIntegerRange(s)
  /\ IF IsFloat THEN Emit("Ex", OtherFormat(s', TRUE)) ELSE Emit("E", s')
  /\ j' = j + 1
  /\ pc' = "loop"
  /\ UNCHANGED <<caps, channels, allow_mixing, fixVars, convVars, fdVars>>

(***************************************************************************)
(* The inputs of transform_caps: one structure, as basetransform hands it. *)
(***************************************************************************)
Rates == {8000, 44100}
\* a rate is fixed, or (caps queried before negotiation) a choice of rates
RateChoices == {IntV(r) : r \in Rates} \cup {ListV(<<8000, 44100>>)}
IntWidths == {8, 16, 24, 32}
FloatWidths == {32, 64}
Endiannesses == {1234, 4321}

ChannelChoices == {IntV(c) : c \in 1..MaxChannels} \cup {RangeV(1, 2)}

PositionChoices(ch) ==
  IF ch.k = "int"
    THEN {Absent, ArrayV(NoneArray(ch.v)), ArrayV(DefinedArray(ch.v))}
    ELSE {Absent}

EndianSign == {<<1234, 1>>, <<4321, 0>>}

\* a valid depth for width w, a depth below it, or the field left out
DepthChoices(w) == {Absent, IntV(w), IntV(w - 4)}

IntStructures ==
  UNION {UNION {
    {[name |-> "int", width |-> IntV(w), depth |-> d, rate |-> r,
      channels |-> c, endianness |-> IntV(es[1]), signed |-> BoolV(es[2]),
      positions |-> p] :
       d \in DepthChoices(w), r \in RateChoices, es \in EndianSign,
       p \in PositionChoices(c)} :
    c \in ChannelChoices} : w \in IntWidths}

FloatStructures ==
  UNION {
    {[name |-> "float", width |-> IntV(w), depth |-> Absent, rate |-> r,
      channels |-> c, endianness |-> IntV(e), signed |-> Absent,
      positions |-> p] :
       w \in FloatWidths, r \in RateChoices, e \in Endiannesses,
       p \in PositionChoices(c)} :
    c \in ChannelChoices}

InputStructures == IntStructures \cup FloatStructures

NoStructure == EmptyNew("none")

\* the AudioConvertFmt after audio_convert_clean_fmt on a zeroed struct
CleanFmt ==
  [is_int |-> FALSE, channels |-> 0, unpositioned_layout |-> FALSE,
   width |-> 0, rate |-> 0, endianness |-> 0, sign |-> FALSE, depth |-> 0,
   unit_size |-> 0]
NoCtx == [prepared |-> FALSE, in |-> CleanFmt, out |-> CleanFmt]
NoBuffer == [size |-> 0, gap |-> FALSE]
NoConv ==
  [flow |-> "none", samples |-> 0, convert_calls |-> 0, converted |-> 0,
   silence_calls |-> 0, written |-> 0]
\* the element before set_caps and transform have run
ConvIdle ==
  /\ incaps = NoStructure
  /\ outcaps = NoStructure
  /\ ctx = NoCtx
  /\ set_caps_ret = "none"
  /\ prepare_calls = 0
  /\ inbuf = NoBuffer
  /\ outbuf = NoBuffer
  /\ conv = NoConv

\* no GstFDSet made yet
FdIdle ==
  /\ fdmode = "none"
  /\ pollfds = <<>>
  /\ last_pollfds = 0
  /\ free = 0
  /\ readfds = {}
  /\ writefds = {}
  /\ fd_idx = <<>>
  /\ added = {}
  /\ last_read = <<>>
  /\ last_write = <<>>

Init ==
  /\ pc = "loop"
  /\ caps \in {<<st>> : st \in InputStructures}
  /\ j = 1
  /\ s = NoStructure
  /\ ret = <<>>
  /\ channels = 0
  /\ allow_mixing \in BOOLEAN
  /\ emitted = <<>>
  /\ ins = NoStructure
  /\ outs = NoStructure
  /\ outs0 = NoStructure
  /\ ConvIdle
  /\ FdIdle

Next ==
  \/ LoopHead
  \/ TierA
  \/ TierAx
  \/ TierB
  \/ TierBx
  \/ TierC
  \/ TierD
  \/ TierDx
  \/ TierE

Spec == Init /\ [][Next]_vars

(***************************************************************************)
(* transform_caps on caps of two structures (the loop over j).             *)
(***************************************************************************)
\* the structure processed first: a fixed channel count
MultiFirst ==
  UNION {
    {[name |-> n, width |-> IntV(32),
      depth |-> IF n = "int" THEN IntV(32) ELSE Absent,
      rate |-> IntV(44100), channels |-> IntV(c),
      endianness |-> IntV(1234),
      signed |-> IF n = "int" THEN BoolV(1) ELSE Absent,
      positions |-> p] :
       n \in {"int", "float"},
       p \in {Absent, ArrayV(NoneArray(c)), ArrayV(DefinedArray(c))}} :
    c \in {1, 6, 11}}

\* the structure processed second: any channel constraint
MultiSecond ==
  {[name |-> n, width |-> IntV(w),
    depth |-> IF n = "int" THEN IntV(w) ELSE Absent,
    rate |-> IntV(r), channels |-> c,
    endianness |-> IntV(4321),
    signed |-> IF n = "int" THEN BoolV(0) ELSE Absent,
    positions |-> Absent] :
     n \in {"int", "float"}, w \in {32}, r \in Rates,
     c \in {Absent, RangeV(1, 2), ListV(<<2, 6>>), IntV(2)}}

InitMulti ==
  /\ pc = "loop"
  /\ caps \in {<<a, b>> : a \in MultiFirst, b \in MultiSecond}
  /\ j = 1
  /\ s = NoStructure
  /\ ret = <<>>
  /\ channels = 0
  /\ allow_mixing \in BOOLEAN
  /\ emitted = <<>>
  /\ ins = NoStructure
  /\ outs = NoStructure
  /\ outs0 = NoStructure
  /\ ConvIdle
  /\ FdIdle

SpecMulti == InitMulti /\ [][Next]_vars

TypeOK ==
  /\ pc \in {"loop", "tierA", "tierAx", "tierB", "tierBx", "tierC", "tierD",
             "tierDx", "tierE", "done", "fix_channels", "fix_rate",
             "fix_endianness", "fix_width", "fix_depth", "fix_signed", "fixed",
             "set_caps", "negotiated", "not_negotiated", "transformed",
             "fdset"}
  /\ Len(ret) <= Len(emitted)

(***************************************************************************)
(* gst_audio_convert_fixate_caps and gst_audio_convert_fixate_channels.    *)
(***************************************************************************)
Abs(x) == IF x < 0 THEN -x ELSE x

\* the list entry gst_structure_fixate_field_nearest_int settles on: the
\* first one at the least distance from the target
NearestInList(l, target) ==
  LET best == CHOOSE i \in 1..Len(l) :
                /\ \A m \in 1..Len(l) : Abs(target - l[i]) <= Abs(target - l[m])
                /\ \A m \in 1..(i - 1) : Abs(target - l[m]) > Abs(target - l[i])
  IN l[best]

\* a variant that settles ranges only
FixateFieldNearestIntRangesOnly(st, f, target) ==
  LET v == st[f] IN
  IF v.k = "range"
    THEN SetField(st, f,
           IntV(IF target < v.lo THEN v.lo
                ELSE IF target > v.hi THEN v.hi ELSE target))
    ELSE st

\* gst_structure_fixate_field_nearest_int
FixateFieldNearestInt(st, f, target) ==
  LET v == st[f] IN
  IF v.k = "range"
    THEN SetField(st, f,
           IntV(IF target < v.lo THEN v.lo
                ELSE IF target > v.hi THEN v.hi ELSE target))
  ELSE IF v.k = "list" /\ Len(v.l) > 0
    THEN SetField(st, f, IntV(NearestInList(v.l, target)))
  ELSE st

\* gst_structure_fixate_field_boolean
FixateFieldBoolean(st, f, target) ==
  LET v == st[f] IN
  IF v.k = "list" /\ Len(v.l) > 0
    THEN SetField(st, f,
           BoolV(IF target \in SeqToSet(v.l) THEN target ELSE v.l[1]))
    ELSE st

\* a table whose 6-channel row lists centre and lfe before the rears
DefaultPositionsCentreFirst ==
  << <<"MONO">>,
     <<"FL", "FR">>,
     <<"FL", "FR", "LFE">>,
     <<"FL", "FR", "RL", "RR">>,
     <<"FL", "FR", "RL", "RR", "FC">>,
     <<"FL", "FR", "FC", "LFE", "RL", "RR">>,
     <<"FL", "FR", "RL", "RR", "FC", "LFE", "RC">>,
     <<"FL", "FR", "RL", "RR", "FC", "LFE", "SL", "SR">> >>

\* static default_positions[8][8], row n cut to its n entries
DefaultPositions ==
  << <<"MONO">>,
     <<"FL", "FR">>,
     <<"FL", "FR", "LFE">>,
     <<"FL", "FR", "RL", "RR">>,
     <<"FL", "FR", "RL", "RR", "FC">>,
     <<"FL", "FR", "RL", "RR", "FC", "LFE">>,
     <<"FL", "FR", "RL", "RR", "FC", "LFE", "RC">>,
     <<"FL", "FR", "RL", "RR", "FC", "LFE", "SL", "SR">> >>

RECURSIVE FindSuitableChannelLayout(_, _)
RECURSIVE FindSuitableInItems(_, _, _)

\* the loop of find_suitable_channel_layout over a list, from entry i on
FindSuitableInItems(items, i, chans) ==
  IF i > Len(items) THEN Absent
  ELSE LET r == FindSuitableChannelLayout(items[i], chans) IN
       IF r # Absent THEN r ELSE FindSuitableInItems(items, i + 1, chans)

\* a variant that looks at the entries of the list but not inside them
FindSuitableChannelLayoutFlat(val, chans) ==
  IF val.k = "array" /\ Len(val.a) = chans THEN val
  ELSE IF val.k = "llist"
          /\ \E i \in 1..Len(val.items) :
               val.items[i].k = "array" /\ Len(val.items[i].a) = chans
    THEN val.items[CHOOSE i \in 1..Len(val.items) :
           /\ val.items[i].k = "array" /\ Len(val.items[i].a) = chans
           /\ \A m \in 1..(i - 1) :
                ~(val.items[m].k = "array" /\ Len(val.items[m].a) = chans)]
  ELSE Absent

\* find_suitable_channel_layout: the value found, Absent for NULL
FindSuitableChannelLayout(val, chans) ==
  IF val.k = "array" /\ Len(val.a) = chans THEN val
  ELSE IF val.k = "llist" THEN FindSuitableInItems(val.items, 1, chans)
  ELSE Absent

RECURSIVE LayoutIntersects(_, _)
\* gst_value_intersect of a fixed layout with an array or a (nested) list
LayoutIntersects(layout, val) ==
  IF val.k = "array" THEN val = layout
  ELSE IF val.k = "llist"
    THEN \E i \in 1..Len(val.items) : LayoutIntersects(layout, val.items[i])
  ELSE FALSE

\* a fallback that sets nothing
DefaultLayoutFallbackNever(o, out_chans) == o

\* lines 908-916: the default layout, where the table has one
DefaultLayoutFallback(o, out_chans) ==
  IF out_chans > 0 /\ out_chans <= 8
    THEN SetField(o, "positions", ArrayV(DefaultPositions[out_chans]))
    ELSE o

\* lines 887-916: pick from the candidate's layouts or fall back
PickOrDefault(o, out_layout, out_chans) ==
  LET l == IF out_layout.k = "llist"
             THEN FindSuitableChannelLayout(out_layout, out_chans)
             ELSE out_layout
  IN IF l # Absent /\ l.k = "array" /\ Len(l.a) = out_chans
       THEN SetField(o, "positions", l)
       ELSE DefaultLayoutFallback(o, out_chans)

\* gst_audio_convert_fixate_channels (ins, outs): the outs it leaves
FixateChannels(i, o) ==
  IF ~GetInt(i, "channels") THEN o
  ELSE IF ~HasField(o, "channels") THEN RemoveField(o, "positions")
  ELSE
    LET o1 == FixateFieldNearestInt(o, "channels", i.channels.v) IN
    IF ~GetInt(o1, "channels") THEN RemoveField(o1, "positions")
    ELSE
      LET in_chans == i.channels.v
          out_chans == o1.channels.v
          out_layout == o1.positions
          in_layout == i.positions
      IN
      IF out_layout = Absent /\ out_chans <= 2
         /\ (in_chans # out_chans \/ in_layout = Absent)
        THEN o1
      ELSE IF in_chans = out_chans /\ in_layout # Absent
        THEN
          IF out_layout = Absent THEN SetField(o1, "positions", in_layout)
          ELSE IF out_layout.k = "array" /\ Len(out_layout.a) = out_chans
            THEN o1
          ELSE IF LayoutIntersects(in_layout, out_layout)
            THEN SetField(o1, "positions", in_layout)
          ELSE LET found == FindSuitableChannelLayout(out_layout, out_chans) IN
            IF found # Absent THEN SetField(o1, "positions", found)
            ELSE DefaultLayoutFallback(o1, out_chans)
      ELSE PickOrDefault(o1, out_layout, out_chans)

\* a variant that steers every field by the input's rate
FixateNearestToInputRate(i, o, f) ==
  IF GetInt(i, f) /\ HasField(o, f)
    THEN FixateFieldNearestInt(o, f, i.rate.v)
    ELSE o

\* lines 940-956: rate, endianness and width follow the input's value
FixateNearestToInput(i, o, f) ==
  IF GetInt(i, f) /\ HasField(o, f)
    THEN FixateFieldNearestInt(o, f, i[f].v)
    ELSE o

\* the local gint width: set by line 950 when the input has a width,
\* otherwise never written
WidthLocal(i) == IF GetInt(i, "width") THEN {i.width.v} ELSE IntWidths

\* lines 958-967
FixateDepth(i, o, width) ==
  IF GetInt(i, "depth")
    THEN (IF HasField(o, "depth")
            THEN FixateFieldNearestInt(o, "depth", i.depth.v) ELSE o)
    ELSE (IF HasField(o, "depth")
            THEN FixateFieldNearestInt(o, "depth", width) ELSE o)

\* a variant that prefers signed whatever the input has
FixateSignedTrue(i, o) ==
  IF GetBoolean(i, "signed") /\ HasField(o, "signed")
    THEN SetField(o, "signed", BoolV(1))
    ELSE o

\* lines 969-973
FixateSigned(i, o) ==
  IF GetBoolean(i, "signed") /\ HasField(o, "signed")
    THEN FixateFieldBoolean(o, "signed", i.signed.v)
    ELSE o

FixChannelsStep ==
  /\ pc = "fix_channels"
  /\ outs' = FixateChannels(ins, outs)
  /\ pc' = "fix_rate"
  /\ UNCHANGED <<ins, outs0, capsVars, convVars, fdVars>>

FixRateStep ==
  /\ pc = "fix_rate"
  /\ outs' = FixateNearestToInput(ins, outs, "rate")
  /\ pc' = "fix_endianness"
  /\ UNCHANGED <<ins, outs0, capsVars, convVars, fdVars>>

FixEndiannessStep ==
  /\ pc = "fix_endianness"
  /\ outs' = FixateNearestToInput(ins, outs, "endianness")
  /\ pc' = "fix_width"
  /\ UNCHANGED <<ins, outs0, capsVars, convVars, fdVars>>

FixWidthStep ==
  /\ pc = "fix_width"
  /\ outs' = FixateNearestToInput(ins, outs, "width")
  /\ pc' = "fix_depth"
  /\ UNCHANGED <<ins, outs0, capsVars, convVars, fdVars>>

FixDepthStep ==
  /\ pc = "fix_depth"
  /\ \E width \in WidthLocal(ins) : outs' = FixateDepth(ins, outs, width)
  /\ pc' = "fix_signed"
  /\ UNCHANGED <<ins, outs0, capsVars, convVars, fdVars>>

FixSignedStep ==
  /\ pc = "fix_signed"
  /\ outs' = FixateSigned(ins, outs)
  /\ pc' = "fixed"
  /\ UNCHANGED <<ins, outs0, capsVars, convVars, fdVars>>

(***************************************************************************)
(* The inputs of fixate_caps: a fixed structure and a candidate.           *)
(***************************************************************************)
FixChannelCounts == {2, 6, 9}

LayoutChoices(c) ==
  {Absent, ArrayV(NoneArray(c)), ArrayV(DefinedArray(c))}

\* per kind: width, depth, endianness, signed of a fixed input
FixFormats ==
  {[name |-> "int", width |-> IntV(8), depth |-> IntV(8),
    endianness |-> Absent, signed |-> BoolV(0)],
   [name |-> "int", width |-> IntV(24), depth |-> IntV(24),
    endianness |-> IntV(1234), signed |-> BoolV(1)],
   [name |-> "int", width |-> IntV(24), depth |-> Absent,
    endianness |-> IntV(4321), signed |-> BoolV(1)],
   [name |-> "float", width |-> IntV(32), depth |-> Absent,
    endianness |-> IntV(1234), signed |-> Absent],
   [name |-> "float", width |-> IntV(64), depth |-> Absent,
    endianness |-> IntV(4321), signed |-> Absent]}

FixInputs ==
  UNION {
    {[name |-> fm.name, width |-> fm.width, depth |-> fm.depth,
      rate |-> IntV(44100), channels |-> IntV(c),
      endianness |-> fm.endianness, signed |-> fm.signed, positions |-> p] :
       fm \in FixFormats, p \in LayoutChoices(c)} :
    c \in FixChannelCounts}

\* layouts a peer may offer
SixAlt == <<"FL", "FR", "FC", "LFE", "SL", "SR">>
CandidateLayouts ==
  {Absent,
   ArrayV(DefinedArray(6)),
   LayoutsV(<<ArrayV(SixAlt), ArrayV(DefinedArray(2))>>),
   LayoutsV(<<LayoutsV(<<ArrayV(DefinedArray(9))>>), ArrayV(DefinedArray(6))>>),
   LayoutsV(<<ArrayV(SixAlt), ArrayV(DefinedArray(6))>>)}

CandidateChannels ==
  {Absent, IntV(2), IntV(6), RangeV(1, 11), ListV(<<2, 6>>), RangeV(9, 11),
   ListV(<<1, 4>>)}

Candidates ==
  {[name |-> n, width |-> w, depth |-> d, rate |-> r, channels |-> c,
    endianness |-> e, signed |-> sg, positions |-> p] :
     n \in {"int"},
     w \in {ListV(<<8, 16, 24, 32>>), RangeV(16, 32), IntV(16),
            ListV(<<32, 16>>)},
     d \in {Absent, RangeV(1, 32), IntV(16)},
     r \in {ListV(<<8000, 48000>>), IntV(44100)},
     c \in CandidateChannels,
     e \in {ListV(<<1234, 4321>>), IntV(4321)},
     sg \in {Absent, ListV(<<1, 0>>)},
     p \in CandidateLayouts}
  \cup
  {[name |-> "float", width |-> ListV(<<32, 64>>), depth |-> Absent,
    rate |-> r, channels |-> c, endianness |-> ListV(<<1234, 4321>>),
    signed |-> Absent, positions |-> p] :
     r \in {ListV(<<8000, 48000>>), IntV(44100)},
     c \in CandidateChannels, p \in CandidateLayouts}

InitFixate ==
  /\ pc = "fix_channels"
  /\ ins \in FixInputs
  /\ outs \in Candidates \cup {ins}
  /\ outs0 = outs
  /\ caps = <<>>
  /\ j = 1
  /\ s = NoStructure
  /\ ret = <<>>
  /\ channels = 0
  /\ allow_mixing = TRUE
  /\ emitted = <<>>
  /\ ConvIdle
  /\ FdIdle

NextFixate ==
  \/ FixChannelsStep
  \/ FixRateStep
  \/ FixEndiannessStep
  \/ FixWidthStep
  \/ FixDepthStep
  \/ FixSignedStep

SpecFixate == InitFixate /\ [][NextFixate]_vars

(***************************************************************************)
(* gst_audio_convert_parse_caps, gst_audio_convert_set_caps and            *)
(* gst_audio_convert_transform.  The conversion engine (audioconvert.c) is *)
(* a collaborator: prepare, sizes and convert are modelled by their        *)
(* contract.                                                               *)
(***************************************************************************)
MaxBufSize == 12
\* G_BYTE_ORDER of a little-endian host
GByteOrder == 1234

\* gst_caps_is_fixed on a one-structure caps
CapsIsFixed(st) == \A f \in AllFields : HasField(st, f) => IsFixed(st[f])

\* a unit size that forgets the channels
UnitSizeOneChannel(width, nchannels) == width \div 8

\* line 336: fmt->unit_size
UnitSize(width, nchannels) == (width * nchannels) \div 8

\* a parse that clamps the depth to the width instead of rejecting it
ParseCapsClampDepth(st) ==
  LET is_int == st.name = "int"
      fail == [ok |-> FALSE, fmt |-> CleanFmt] IN
  IF ~CapsIsFixed(st) THEN fail
  ELSE IF ~GetInt(st, "channels") THEN fail
  ELSE IF GetChannelPositions(st) = <<>> THEN fail
  ELSE IF ~GetInt(st, "width") THEN fail
  ELSE IF ~GetInt(st, "rate") THEN fail
  ELSE IF st.width.v # 8 /\ ~GetInt(st, "endianness") THEN fail
  ELSE IF is_int /\ ~GetBoolean(st, "signed") THEN fail
  ELSE IF is_int /\ ~GetInt(st, "depth") THEN fail
  ELSE [ok |-> TRUE,
        fmt |-> [is_int |-> is_int,
                 channels |-> st.channels.v,
                 unpositioned_layout |->
                   StructureHasFixedChannelPositions(st).unpositioned,
                 width |-> st.width.v,
                 rate |-> st.rate.v,
                 endianness |-> IF st.width.v # 8 THEN st.endianness.v
                                ELSE GByteOrder,
                 sign |-> is_int /\ st.signed.v = 1,
                 depth |-> IF ~is_int THEN 0
                           ELSE IF st.depth.v > st.width.v THEN st.width.v
                           ELSE st.depth.v,
                 unit_size |-> UnitSize(st.width.v, st.channels.v)]]

\* gst_audio_convert_parse_caps: ok is the return value, fmt what *fmt holds
ParseCaps(st) ==
  LET is_int == st.name = "int"
      fail == [ok |-> FALSE, fmt |-> CleanFmt] IN
  IF ~CapsIsFixed(st) THEN fail
  ELSE IF ~GetInt(st, "channels") THEN fail
  ELSE IF GetChannelPositions(st) = <<>> THEN fail
  ELSE IF ~GetInt(st, "width") THEN fail
  ELSE IF ~GetInt(st, "rate") THEN fail
  ELSE IF st.width.v # 8 /\ ~GetInt(st, "endianness") THEN fail
  ELSE IF is_int /\ ~GetBoolean(st, "signed") THEN fail
  ELSE IF is_int /\ ~GetInt(st, "depth") THEN fail
  ELSE IF is_int /\ st.depth.v > st.width.v THEN fail
  ELSE [ok |-> TRUE,
        fmt |-> [is_int |-> is_int,
                 channels |-> st.channels.v,
                 unpositioned_layout |->
                   StructureHasFixedChannelPositions(st).unpositioned,
                 width |-> st.width.v,
                 rate |-> st.rate.v,
                 endianness |-> IF st.width.v # 8 THEN st.endianness.v
                                ELSE GByteOrder,
                 sign |-> is_int /\ st.signed.v = 1,
                 depth |-> IF is_int THEN st.depth.v ELSE 0,
                 unit_size |-> UnitSize(st.width.v, st.channels.v)]]

\* audio_convert_prepare_context: the engine accepts the pair or refuses it
PrepareContextOutcomes == BOOLEAN

\* audio_convert_get_sizes: the bytes samples take on each side
AudioConvertGetSizes(c, samples) ==
  [insize |-> samples * c.in.unit_size, outsize |-> samples * c.out.unit_size]

\* gst_audio_convert_set_caps
SetCaps ==
  /\ pc = "set_caps"
  /\ LET pin == ParseCaps(incaps)
         pout == ParseCaps(outcaps) IN
     IF ~pin.ok \/ ~pout.ok
       THEN /\ set_caps_ret' = "FALSE"
            /\ pc' = "not_negotiated"
            /\ UNCHANGED <<ctx, prepare_calls>>
       ELSE \E ok \in PrepareContextOutcomes :
            /\ prepare_calls' = prepare_calls + 1
            /\ IF ok
                 THEN /\ ctx' = [prepared |-> TRUE, in |-> pin.fmt,
                                 out |-> pout.fmt]
                      /\ set_caps_ret' = "TRUE"
                      /\ pc' = "negotiated"
                 ELSE /\ ctx' = ctx
                      /\ set_caps_ret' = "FALSE"
                      /\ pc' = "not_negotiated"
  /\ UNCHANGED <<incaps, outcaps, inbuf, outbuf, conv, capsVars, fixVars,
                 fdVars>>

\* a transform that checks the input size only
TransformResultNoDstCheck(c, bufsize, gap, dstsize, sizes_ok, convert_ok, partial) ==
  LET samples == bufsize \div c.in.unit_size
      sz == AudioConvertGetSizes(c, samples)
      nothing == [NoConv EXCEPT !.samples = samples] IN
  IF ~sizes_ok THEN [nothing EXCEPT !.flow = "ERROR"]
  ELSE IF sz.insize = 0 \/ sz.outsize = 0 THEN [nothing EXCEPT !.flow = "OK"]
  ELSE IF bufsize < sz.insize THEN [nothing EXCEPT !.flow = "ERROR"]
  ELSE IF ~gap
    THEN [flow |-> IF convert_ok THEN "OK" ELSE "ERROR",
          samples |-> samples, convert_calls |-> 1, converted |-> samples,
          silence_calls |-> 0,
          written |-> IF convert_ok \/ partial THEN sz.outsize ELSE 0]
    ELSE [flow |-> "OK", samples |-> samples, convert_calls |-> 0,
          converted |-> 0, silence_calls |-> 1, written |-> sz.outsize]

\* gst_audio_convert_transform on a prepared context: bufsize and dstsize
\* are the sizes of the two buffers, sizes_ok and convert_ok what the engine
\* answers, partial whether a failing convert had already written
TransformResult(c, bufsize, gap, dstsize, sizes_ok, convert_ok, partial) ==
  LET samples == bufsize \div c.in.unit_size
      sz == AudioConvertGetSizes(c, samples)
      nothing == [NoConv EXCEPT !.samples = samples] IN
  IF ~sizes_ok THEN [nothing EXCEPT !.flow = "ERROR"]
  ELSE IF sz.insize = 0 \/ sz.outsize = 0 THEN [nothing EXCEPT !.flow = "OK"]
  ELSE IF bufsize < sz.insize \/ dstsize < sz.outsize
    THEN [nothing EXCEPT !.flow = "ERROR"]
  ELSE IF ~gap
    THEN [flow |-> IF convert_ok THEN "OK" ELSE "ERROR",
          samples |-> samples, convert_calls |-> 1, converted |-> samples,
          silence_calls |-> 0,
          written |-> IF convert_ok \/ partial THEN sz.outsize ELSE 0]
    ELSE [flow |-> "OK", samples |-> samples, convert_calls |-> 0,
          converted |-> 0, silence_calls |-> 1, written |-> sz.outsize]

Transform ==
  /\ pc = "negotiated"
  /\ \E insz \in 0..MaxBufSize, outsz \in 0..MaxBufSize, gap \in BOOLEAN,
        sizes_ok \in BOOLEAN, convert_ok \in BOOLEAN, partial \in BOOLEAN :
       /\ inbuf' = [size |-> insz, gap |-> gap]
       /\ outbuf' = [size |-> outsz, gap |-> FALSE]
       /\ conv' = TransformResult(ctx, insz, gap, outsz, sizes_ok, convert_ok,
                                  partial)
  /\ pc' = "transformed"
  /\ UNCHANGED <<incaps, outcaps, ctx, set_caps_ret, prepare_calls, capsVars,
                 fixVars, fdVars>>

\* well-formed descriptors handed to set_caps
GoodFormats ==
  {[name |-> "int", width |-> IntV(8), depth |-> IntV(8), rate |-> IntV(44100),
    channels |-> IntV(1), endianness |-> Absent, signed |-> BoolV(0),
    positions |-> Absent],
   [name |-> "int", width |-> IntV(16), depth |-> IntV(16),
    rate |-> IntV(44100), channels |-> IntV(2), endianness |-> IntV(1234),
    signed |-> BoolV(1), positions |-> Absent],
   [name |-> "int", width |-> IntV(24), depth |-> IntV(20),
    rate |-> IntV(44100), channels |-> IntV(2), endianness |-> IntV(4321),
    signed |-> BoolV(1), positions |-> ArrayV(<<"FL", "FR">>)],
   [name |-> "float", width |-> IntV(32), depth |-> Absent,
    rate |-> IntV(44100), channels |-> IntV(2), endianness |-> IntV(1234),
    signed |-> Absent, positions |-> Absent],
   [name |-> "float", width |-> IntV(64), depth |-> Absent,
    rate |-> IntV(8000), channels |-> IntV(1), endianness |-> IntV(1234),
    signed |-> Absent, positions |-> Absent]}

\* the same with one field dropped, the depth raised above the width, or
\* the width left open
SetCapsStructures ==
  GoodFormats
  \cup {RemoveField(g, f) : g \in GoodFormats, f \in SeqToSet(FieldsUsed)}
  \cup {SetField(g, "depth", IntV(g.width.v + 8)) :
          g \in {x \in GoodFormats : x.name = "int"}}
  \cup {SetField(g, "width", ListV(<<16, 32>>)) : g \in GoodFormats}

InitConvert ==
  /\ pc = "set_caps"
  /\ incaps \in SetCapsStructures
  /\ outcaps \in SetCapsStructures
  /\ ctx = NoCtx
  /\ set_caps_ret = "none"
  /\ prepare_calls = 0
  /\ inbuf = NoBuffer
  /\ outbuf = NoBuffer
  /\ conv = NoConv
  /\ caps = <<>>
  /\ j = 1
  /\ s = NoStructure
  /\ ret = <<>>
  /\ channels = 0
  /\ allow_mixing = TRUE
  /\ emitted = <<>>
  /\ ins = NoStructure
  /\ outs = NoStructure
  /\ outs0 = NoStructure
  /\ FdIdle

NextConvert ==
  \/ SetCaps
  \/ Transform

SpecConvert == InitConvert /\ [][NextConvert]_vars

(***************************************************************************)
(* GstFDSet (gst/tcp/gstfdset.c): gst_fdset_new, gst_fdset_add_fd,         *)
(* gst_fdset_remove_fd, gst_fdset_fd_ctl_write and gst_fdset_fd_ctl_read   *)
(* in select mode and in poll mode.  A GstFD is named by its descriptor.   *)
(***************************************************************************)
MaxFds == 3
Fds == 1..MaxFds
\* the slots of set->pollfds the calls can reach: one past the GstFDs
Slots == 0..MaxFds
Min(a, b) == IF a < b THEN a ELSE b
Max(a, b) == IF a > b THEN a ELSE b

\* a slot as add_fd and remove_fd leave it
Slot(fd) == [fd |-> fd, events |-> {}, revents |-> {}]

\* the slot add_fd takes: set->free, or with free == -1 where its search
\* stops: at the first slot of 0..last_pollfds holding -1, or at
\* last_pollfds
AddIndex ==
  IF free # -1 THEN free
  ELSE IF \E i \in 0..last_pollfds : pollfds[i].fd = -1
    THEN CHOOSE i \in 0..last_pollfds :
           /\ pollfds[i].fd = -1
           /\ \A m \in 0..(i - 1) : pollfds[m].fd # -1
  ELSE last_pollfds

\* a remove that lowers last_pollfds whichever slot it frees
LastAfterRemoveAlways(idx, last) == last - 1

\* lines 207-210: lower last_pollfds if the last slot was freed
LastAfterRemove(idx, last) == IF idx + 1 = last THEN last - 1 ELSE last

\* gst_fdset_add_fd
AddFd(f) ==
  /\ fdmode \in {"select", "poll"}
  /\ f \notin added
  /\ added' = added \cup {f}
  /\ IF fdmode = "poll"
       THEN LET idx == AddIndex IN
            /\ pollfds' = [pollfds EXCEPT ![idx] = Slot(f)]
            /\ last_pollfds' = Max(idx + 1, last_pollfds)
            /\ fd_idx' = [fd_idx EXCEPT ![f] = idx]
            /\ free' = -1
       ELSE UNCHANGED <<pollfds, last_pollfds, fd_idx, free>>
  /\ UNCHANGED <<pc, fdmode, readfds, writefds, last_read, last_write,
                 capsVars, fixVars, convVars>>

\* gst_fdset_remove_fd
RemoveFd(f) ==
  /\ fdmode \in {"select", "poll"}
  /\ f \in added
  /\ added' = added \ {f}
  /\ last_read' = [last_read EXCEPT ![f] = FALSE]
  /\ last_write' = [last_write EXCEPT ![f] = FALSE]
  /\ IF fdmode = "poll"
       THEN LET idx == fd_idx[f]
                cleared == -1 IN
            /\ pollfds' = [pollfds EXCEPT ![idx] = Slot(-1)]
            /\ last_pollfds' = LastAfterRemove(idx, last_pollfds)
            /\ fd_idx' = [fd_idx EXCEPT ![f] = cleared]
            /\ free' = IF free = -1 THEN cleared ELSE Min(free, cleared)
            /\ UNCHANGED <<readfds, writefds>>
       ELSE /\ writefds' = writefds \ {f}
            /\ readfds' = readfds \ {f}
            /\ UNCHANGED <<pollfds, last_pollfds, fd_idx, free>>
  /\ UNCHANGED <<pc, fdmode, capsVars, fixVars, convVars>>

\* gst_fdset_fd_ctl_write
CtlWrite(f, active) ==
  /\ fdmode \in {"select", "poll"}
  /\ f \in added
  /\ last_write' = [last_write EXCEPT ![f] = active]
  /\ IF fdmode = "poll"
       THEN /\ pollfds' = [pollfds EXCEPT ![fd_idx[f]].events =
                             IF active THEN {"POLLOUT"} ELSE {}]
            /\ UNCHANGED writefds
       ELSE /\ writefds' = IF active THEN writefds \cup {f} ELSE writefds \ {f}
            /\ UNCHANGED pollfds
  /\ UNCHANGED <<pc, fdmode, last_pollfds, free, readfds, fd_idx, added,
                 last_read, capsVars, fixVars, convVars>>

\* gst_fdset_fd_ctl_read
CtlRead(f, active) ==
  /\ fdmode \in {"select", "poll"}
  /\ f \in added
  /\ last_read' = [last_read EXCEPT ![f] = active]
  /\ IF fdmode = "poll"
       THEN /\ pollfds' = [pollfds EXCEPT ![fd_idx[f]].events =
                             IF active THEN {"POLLIN", "POLLPRI"} ELSE {}]
            /\ UNCHANGED readfds
       ELSE /\ readfds' = IF active THEN readfds \cup {f} ELSE readfds \ {f}
            /\ UNCHANGED pollfds
  /\ UNCHANGED <<pc, fdmode, last_pollfds, free, writefds, fd_idx, added,
                 last_write, capsVars, fixVars, convVars>>

\* what g_realloc leaves in the slots nothing has written yet
FreshMemory == {[i \in Slots |-> Slot(g)] : g \in {-1, 1}}

\* the set gst_fdset_new returns
InitFdSet ==
  /\ pc = "fdset"
  /\ fdmode \in {"select", "poll"}
  /\ pollfds \in FreshMemory
  /\ last_pollfds = 0
  /\ free = 0
  /\ readfds = {}
  /\ writefds = {}
  /\ fd_idx = [f \in Fds |-> -1]
  /\ added = {}
  /\ last_read = [f \in Fds |-> FALSE]
  /\ last_write = [f \in Fds |-> FALSE]
  /\ caps = <<>>
  /\ j = 1
  /\ s = NoStructure
  /\ ret = <<>>
  /\ channels = 0
  /\ allow_mixing = TRUE
  /\ emitted = <<>>
  /\ ins = NoStructure
  /\ outs = NoStructure
  /\ outs0 = NoStructure
  /\ ConvIdle

NextFdSet ==
  \/ \E f \in Fds : AddFd(f)
  \/ \E f \in Fds : RemoveFd(f)
  \/ \E f \in Fds, active \in BOOLEAN : CtlWrite(f, active)
  \/ \E f \in Fds, active \in BOOLEAN : CtlRead(f, active)

SpecFdSet == InitFdSet /\ [][NextFdSet]_vars

(***************************************************************************)
(* Vocabulary of the properties.                                           *)
(***************************************************************************)
\* the structure an emitted entry was derived from
InputOf(e) == caps[e.j]
EmittedAt(tiers) == {i \in 1..Len(emitted) : emitted[i].tier \in tiers}
TierSeq == [i \in 1..Len(emitted) |-> emitted[i].tier]

\* a field admits value x: an absent field does not constrain
Admits(v, x) == v.k = "absent" \/ x \in ValSet(v)
\* a present field admits some value below x
AdmitsBelow(v, x) == \E y \in ValSet(v) : y < x

FixedChannels(st) == GetInt(st, "channels")
\* the layout is an array of GST_AUDIO_CHANNEL_POSITION_NONE
ExplicitUnpositioned(st) ==
  st.positions.k = "array" /\ st.positions.a # <<>> /\ st.positions.a[1] = "NONE"
\* no layout at all above 8 channels counts as unpositioned too
ImplicitUnpositioned(st) ==
  FixedChannels(st) /\ ~HasField(st, "positions") /\ st.channels.v > 8

\* the depth an integer input has, given or defaulted to its width
InputDepth(st) == IF GetInt(st, "depth") THEN st.depth.v ELSE st.width.v

\* descriptor d admits a lower width, depth or channel count than input st
Reducing(d, st) ==
  \/ AdmitsBelow(d.width, st.width.v)
  \/ st.name = "int" /\ d.name = "int" /\ AdmitsBelow(d.depth, InputDepth(st))
  \/ \E y \in ValSet(d.channels) : \A z \in ValSet(st.channels) : y < z

ExpectedTiers(st) ==
  <<"A", "Ax", "B", "Bx">>
  \o (IF st.width.v > 16
        THEN (IF st.name = "float" THEN <<"Cx">> ELSE <<"C">>) ELSE <<>>)
  \o <<"D", "Dx">>
  \o (IF st.name = "float" THEN <<"Ex">> ELSE <<"E">>)

KeptStructures ==
  LET kept == SelectSeq(emitted, LAMBDA e : e.kept) IN
  [i \in 1..Len(kept) |-> kept[i].st]

(***************************************************************************)
(* C1: for a single input structure the candidates are appended in the     *)
(* order Tier A, A cross-kind, B, B cross-kind, C, D, D cross-kind, E;     *)
(* only entries an earlier entry already covers are dropped; and in the    *)
(* result every descriptor admitting a precision or channel reduction      *)
(* comes after every descriptor that admits none.                          *)
(***************************************************************************)
C1_TierOrder ==
  /\ ret = KeptStructures
  /\ \A i \in 1..Len(emitted) :
       ~emitted[i].kept =>
         \E k \in 1..(i - 1) :
           emitted[k].kept /\ StructureIsSubset(emitted[i].st, emitted[k].st)
  /\ \A i, k \in 1..Len(ret) :
       (i < k /\ Reducing(ret[i], caps[1])) => Reducing(ret[k], caps[1])
  /\ pc = "done" => TierSeq = ExpectedTiers(caps[1])

C1_Witness ==
  /\ pc = "done"
  /\ Len(ret) = 8
  /\ ~Reducing(ret[4], caps[1])
  /\ Reducing(ret[5], caps[1])

(***************************************************************************)
(* C2: every descriptor emitted, in every tier and of either kind, carries *)
(* exactly the rate constraint of the input structure.                     *)
(***************************************************************************)
C2_RateUntouched ==
  /\ \A i \in 1..Len(emitted) : emitted[i].st.rate = InputOf(emitted[i]).rate
  /\ \A i \in 1..Len(ret) : ret[i].rate = caps[1].rate

C2_Witness ==
  /\ pc = "done"
  /\ Len(ret) >= 6
  /\ caps[1].rate = IntV(44100)
  /\ \E i \in 1..Len(ret) : ret[i].name # caps[1].name

(***************************************************************************)
(* C3 as stated: every input with a fixed channel count c in 1..11 whose   *)
(* layout is not an Unpositioned one (a missing layout included) is        *)
(* mixing-eligible: Tier B carries channels [c, 11] (Fixed 11 for c = 11)  *)
(* and Tier D carries [1, 11], both without a layout.                      *)
(***************************************************************************)
GrownChannels(c) == IF c = 11 THEN IntV(11) ELSE RangeV(c, 11)

MixingShape(e) ==
  LET c == InputOf(e).channels.v IN
  /\ e.tier = "B" => e.st.channels = GrownChannels(c)
  /\ e.tier = "D" => e.st.channels = RangeV(1, 11)
  /\ ~HasField(e.st, "positions")

C4_UnpositionedPinned ==
  \A i \in EmittedAt({"B", "Bx", "C", "Cx", "D", "Dx", "E", "Ex"}) :
    LET e == emitted[i] IN
    (FixedChannels(InputOf(e)) /\ ExplicitUnpositioned(InputOf(e))) =>
      /\ e.st.channels = InputOf(e).channels
      /\ e.st.positions = InputOf(e).positions

C4_Witness ==
  /\ pc = "done"
  /\ caps[1].channels = IntV(5)
  /\ ExplicitUnpositioned(caps[1])
  /\ caps[1].width = IntV(24)
  /\ Len(emitted) = 8

(***************************************************************************)
(* C5: for a mixing-eligible input with fixed channel count c in 1..11,    *)
(* Tier B admits exactly the counts c..11, no descriptor of Tier A, B or C *)
(* (either kind) admits a count below c, and Tier D, admitting 1..11, is   *)
(* the first tier to admit the counts below c.                             *)
(***************************************************************************)
MixingEligible(st) ==
  /\ FixedChannels(st)
  /\ ~ExplicitUnpositioned(st)
  /\ ~ImplicitUnpositioned(st)

C5_GrowthBeforeReduction ==
  \A i \in 1..Len(emitted) :
    LET e == emitted[i]
        c == InputOf(e).channels.v IN
    (MixingEligible(InputOf(e)) /\ c \in 1..11) =>
      /\ e.tier = "B" => ValSet(e.st.channels) = c..11
      /\ e.tier \in {"A", "Ax", "B", "Bx", "C", "Cx"} =>
           (HasField(e.st, "channels") /\ ~AdmitsBelow(e.st.channels, c))
      /\ e.tier = "D" => ValSet(e.st.channels) = 1..11

C5_Witness ==
  /\ pc = "done"
  /\ MixingEligible(caps[1])
  /\ caps[1].channels = IntV(5)
  /\ \E i \in EmittedAt({"D"}) : AdmitsBelow(emitted[i].st.channels, 5)
  /\ \E i \in EmittedAt({"C"}) : ~AdmitsBelow(emitted[i].st.channels, 5)

(***************************************************************************)
(* C6: 11 is the upper bound of channel expansion: for every input, one    *)
(* with a fixed count above 11 included, every channel-count range emitted *)
(* satisfies 1 <= lo <= hi <= 11, a count of 11 stays Fixed(11) in Tier B, *)
(* and a count above 11 is carried only as that fixed value or within      *)
(* [1, 11].                                                                *)
(***************************************************************************)
C6_ChannelBound ==
  \A i \in 1..Len(emitted) :
    LET e == emitted[i]
        ch == e.st.channels IN
    /\ ch.k = "range" => (1 <= ch.lo /\ ch.lo <= ch.hi /\ ch.hi <= 11)
    /\ (e.tier = "B" /\ InputOf(e).channels = IntV(11)) => ch = IntV(11)
    /\ (FixedChannels(InputOf(e)) /\ InputOf(e).channels.v > 11) =>
         (ch = InputOf(e).channels \/ (ch.k = "range" /\ ch.hi <= 11))

(***************************************************************************)
(* C7 as stated: in Tier B, for an input (of either kind) with fixed width *)
(* w, the width constraint of the same-kind descriptor is exactly the      *)
(* supported widths from w up to 32 and never admits a width below w.      *)
(***************************************************************************)
WidthsFrom(w) == {x \in IntWidths : x >= w}

C7_AsStated ==
  \A i \in EmittedAt({"B"}) :
    LET e == emitted[i] IN
    GetInt(InputOf(e), "width") =>
      /\ ValSet(e.st.width) = WidthsFrom(InputOf(e).width.v)
      /\ ~AdmitsBelow(e.st.width, InputOf(e).width.v)

(***************************************************************************)
(* C7 amended: in Tier B, for an integer input with fixed width w, the     *)
(* width constraint of the same-kind descriptor is exactly the supported   *)
(* widths from w up to 32 and never admits a width below w.                *)
(***************************************************************************)
C7_MonotonicPrecision ==
  \A i \in EmittedAt({"B"}) :
    LET e == emitted[i] IN
    (InputOf(e).name = "int" /\ GetInt(InputOf(e), "width")) =>
      /\ e.st.name = "int"
      /\ ValSet(e.st.width) = WidthsFrom(InputOf(e).width.v)
      /\ ~AdmitsBelow(e.st.width, InputOf(e).width.v)

C7_Witness ==
  /\ pc = "done"
  /\ caps[1].name = "int"
  /\ caps[1].width = IntV(16)
  /\ \E i \in EmittedAt({"B"}) : emitted[i].st.width = ListV(<<16, 24, 32>>)

(***************************************************************************)
(* C8: for every descriptor emitted from a valid fixed input               *)
(* (depth <= width), in every tier: if its depth and width are both single *)
(* fixed values then depth <= width.                                       *)
(***************************************************************************)
ValidDepth(st) ==
  GetInt(st, "width") /\ (GetInt(st, "depth") => st.depth.v <= st.width.v)

C8_DepthBound ==
  \A i \in 1..Len(emitted) :
    LET e == emitted[i] IN
    (ValidDepth(InputOf(e)) /\ GetInt(e.st, "depth") /\ GetInt(e.st, "width"))
      => e.st.depth.v <= e.st.width.v

C8_Witness ==
  /\ pc = "done"
  /\ caps[1].width = IntV(16)
  /\ ~HasField(caps[1], "depth")
  /\ \E i \in EmittedAt({"A"}) :
       emitted[i].st.depth = IntV(16) /\ emitted[i].st.width = IntV(16)
  /\ \E i \in EmittedAt({"B"}) : emitted[i].st.depth = IntV(16)

(***************************************************************************)
(* C9: for every fixed floating-point input (width 32 or 64) the expanded  *)
(* set holds an integer descriptor admitting the input's rate and channel  *)
(* count with a width in {8,16,24,32} and a depth <= that width; no        *)
(* integer descriptor derived from the input admits width 64; and no       *)
(* floating-point descriptor carries a depth or signed field.              *)
(***************************************************************************)
FixedFloat(st) ==
  /\ st.name = "float"
  /\ GetInt(st, "width")
  /\ GetInt(st, "rate")
  /\ GetInt(st, "channels")

IntegerCandidateFor(d, st) ==
  /\ d.name = "int"
  /\ Admits(d.rate, st.rate.v)
  /\ Admits(d.channels, st.channels.v)
  /\ \E w \in ValSet(d.width) \cap IntWidths :
       ~HasField(d, "depth") \/ \E dp \in ValSet(d.depth) : dp <= w

C9_CrossKind ==
  FixedFloat(caps[1]) =>
    /\ pc = "done" => \E i \in 1..Len(ret) : IntegerCandidateFor(ret[i], caps[1])
    /\ \A i \in 1..Len(emitted) :
         LET d == emitted[i].st IN
         /\ d.name = "int" => 64 \notin ValSet(d.width)
         /\ d.name = "float" => (~HasField(d, "depth") /\ ~HasField(d, "signed"))

C9_Witness ==
  /\ pc = "done"
  /\ FixedFloat(caps[1])
  /\ caps[1].width = IntV(64)
  /\ \E i \in 1..Len(ret) :
       /\ IntegerCandidateFor(ret[i], caps[1])
       /\ ret[i].width = ListV(<<8, 16, 24, 32>>)
       /\ HasField(ret[i], "depth")

(***************************************************************************)
(* C10 as stated: for any fixed input and any candidate with non-empty     *)
(* constraints, after gst_audio_convert_fixate_caps every field present in *)
(* the candidate (channels, channel-positions, rate, endianness, width,    *)
(* depth, signed) holds a single concrete value.                           *)
(***************************************************************************)
C10_AsStated ==
  pc = "fixed" => \A f \in AllFields : HasField(outs, f) => IsFixed(outs[f])

(***************************************************************************)
(* C10 amended: after gst_audio_convert_fixate_caps on a fixed input,      *)
(* channels and depth, where the candidate has them, hold a single value;  *)
(* rate, endianness, width and signed hold a single value whenever the     *)
(* input carries that field, and a field the input lacks (signed for a     *)
(* floating-point input, endianness for an 8-bit input without one) is     *)
(* left as the candidate had it; channel-positions is absent or a single   *)
(* array, except that above 8 channels a layout list holding no array of   *)
(* the fixated count is left as it was.                                    *)
(***************************************************************************)
C10_FixatesWhatInputSteers ==
  pc = "fixed" =>
    /\ HasField(outs, "channels") => GetInt(outs, "channels")
    /\ HasField(outs, "depth") => GetInt(outs, "depth")
    /\ \A f \in {"rate", "endianness", "width"} :
         IF GetInt(ins, f)
           THEN HasField(outs, f) => GetInt(outs, f)
           ELSE outs[f] = outs0[f]
    /\ IF GetBoolean(ins, "signed")
         THEN HasField(outs, "signed") => GetBoolean(outs, "signed")
         ELSE outs.signed = outs0.signed
    /\ \/ ~HasField(outs, "positions")
       \/ outs.positions.k = "array"
       \/ /\ outs.channels.v > 8
          /\ outs.positions = outs0.positions
          /\ FindSuitableChannelLayout(outs0.positions, outs.channels.v) = Absent

C10_Witness ==
  /\ pc = "fixed"
  /\ ins.name = "float"
  /\ outs0.name = "int"
  /\ outs0.signed = ListV(<<1, 0>>)
  /\ outs.signed = ListV(<<1, 0>>)
  /\ outs0.width = ListV(<<8, 16, 24, 32>>)
  /\ outs.width = IntV(32)
  /\ outs0.depth = RangeV(1, 32)
  /\ outs.depth = IntV(32)
  /\ outs0.channels = RangeV(1, 11)
  /\ outs.channels = IntV(6)
  /\ outs.positions.k = "array"

(***************************************************************************)
(* Vocabulary of the fixation properties.                                  *)
(***************************************************************************)
\* x is admitted by v and no admitted value is nearer to t
IsNearest(x, v, t) ==
  /\ x \in ValSet(v)
  /\ \A y \in ValSet(v) : Abs(t - x) <= Abs(t - y)
\* the admitted values of v at the least distance from t
NearestSet(v, t) == {x \in ValSet(v) : IsNearest(x, v, t)}
SetMin(S) == CHOOSE x \in S : \A y \in S : x <= y
\* the candidate leaves f open and the input has a fixed value for it
Steered(f) ==
  GetInt(ins, f) /\ HasField(outs0, f) /\ ~IsFixed(outs0[f])
SteeredFields == {"rate", "endianness", "width"}

(***************************************************************************)
(* C11 as stated: each of rate, endianness and width the candidate leaves  *)
(* open is fixated to the admitted value nearest to the input's value, the *)
(* lower one on a tie.                                                     *)
(***************************************************************************)
C11_AsStated ==
  pc = "fixed" =>
    \A f \in SteeredFields :
      Steered(f) => outs[f] = IntV(SetMin(NearestSet(outs0[f], ins[f].v)))

(***************************************************************************)
(* C11 amended: each of rate, endianness and width the candidate leaves    *)
(* open is fixated to an admitted value nearest to the input's value; the  *)
(* input's own value is kept when admitted; on a tie in a list the tied    *)
(* entry listed first is taken, which is the lower one only when the list  *)
(* is ascending.                                                           *)
(***************************************************************************)
C11_NearestFirstListed ==
  pc = "fixed" =>
    \A f \in SteeredFields :
      Steered(f) =>
        /\ GetInt(outs, f)
        /\ IsNearest(outs[f].v, outs0[f], ins[f].v)
        /\ ins[f].v \in ValSet(outs0[f]) => outs[f] = ins[f]
        /\ outs0[f].k = "list" =>
             \E m \in 1..Len(outs0[f].l) :
               /\ outs0[f].l[m] = outs[f].v
               /\ \A n \in 1..(m - 1) :
                    ~IsNearest(outs0[f].l[n], outs0[f], ins[f].v)

C11_Witness ==
  /\ pc = "fixed"
  /\ ins.width = IntV(24)
  /\ outs0.width = ListV(<<32, 16>>)
  /\ outs.width = IntV(32)
  /\ outs0.rate = ListV(<<8000, 48000>>)
  /\ outs.rate = IntV(48000)
  /\ outs0.endianness = ListV(<<1234, 4321>>)
  /\ outs.endianness = ins.endianness

(***************************************************************************)
(* C12: when the input has no depth field and the candidate constrains     *)
(* depth, the output depth is the admitted value nearest to the width      *)
(* chosen for the output.                                                  *)
(***************************************************************************)
C12_DepthFollowsChosenWidth ==
  (/\ pc = "fixed"
   /\ ~HasField(ins, "depth")
   /\ HasField(outs0, "depth")
   /\ GetInt(outs, "width"))
  => /\ GetInt(outs, "depth")
     /\ IsNearest(outs.depth.v, outs0.depth, outs.width.v)

(***************************************************************************)
(* Vocabulary of the layout properties: the state right after              *)
(* gst_audio_convert_fixate_channels, with a fixated count.                *)
(***************************************************************************)
AfterFixateChannels ==
  pc = "fix_rate" /\ GetInt(ins, "channels") /\ GetInt(outs, "channels")
InChans == ins.channels.v
OutChans == outs.channels.v

RECURSIVE ArraysOf(_)
RECURSIVE ArraysOfItems(_, _)
\* the concrete arrays a layout constraint holds, in depth-first order
ArraysOfItems(items, i) ==
  IF i > Len(items) THEN <<>>
  ELSE ArraysOf(items[i]) \o ArraysOfItems(items, i + 1)
ArraysOf(val) ==
  IF val.k = "array" THEN <<val>>
  ELSE IF val.k = "llist" THEN ArraysOfItems(val.items, 1)
  ELSE <<>>
\* those of the fixated length
FittingArrays(val, n) == SelectSeq(ArraysOf(val), LAMBDA a : Len(a.a) = n)

(***************************************************************************)
(* C13 as stated: when the candidate declares no channel-positions field,  *)
(* the output is left with no layout if the fixated count is <= 2 and (the *)
(* count differs from the input's or the input has no layout); in every    *)
(* other case it receives the built-in default layout of the count.        *)
(***************************************************************************)
C13_AsStated ==
  (AfterFixateChannels /\ ~HasField(outs0, "positions")) =>
    IF OutChans <= 2 /\ (InChans # OutChans \/ ~HasField(ins, "positions"))
      THEN ~HasField(outs, "positions")
      ELSE /\ OutChans \in 1..8
           /\ outs.positions = ArrayV(DefaultPositions[OutChans])

(***************************************************************************)
(* C13 amended: when the candidate declares no channel-positions field,    *)
(* the output is left with no layout if the fixated count is <= 2 and (the *)
(* count differs from the input's or the input has no layout); otherwise   *)
(* it takes the input's layout if the counts are equal and the input has   *)
(* one; otherwise it receives the default layout of the count if the count *)
(* is at most 8, and no layout above 8.                                    *)
(***************************************************************************)
C13_NoCandidateLayout ==
  (AfterFixateChannels /\ ~HasField(outs0, "positions")) =>
    IF OutChans <= 2 /\ (InChans # OutChans \/ ~HasField(ins, "positions"))
      THEN ~HasField(outs, "positions")
    ELSE IF InChans = OutChans /\ HasField(ins, "positions")
      THEN outs.positions = ins.positions
    ELSE IF OutChans <= 8
      THEN outs.positions = ArrayV(DefaultPositions[OutChans])
    ELSE ~HasField(outs, "positions")

C13_Witness ==
  /\ AfterFixateChannels
  /\ ~HasField(outs0, "positions")
  /\ InChans = 6
  /\ OutChans = 4
  /\ outs.positions = ArrayV(<<"FL", "FR", "RL", "RR">>)

(***************************************************************************)
(* C14: when the input count equals the fixated count, the input has a     *)
(* layout and the candidate has a layout constraint, the output layout is  *)
(* the candidate's own array if it is one of the right length; else the    *)
(* input's layout if the candidate's constraint holds it; else the first   *)
(* array of the fixated length in depth-first order of the candidate's     *)
(* list; and the default table is used only when none of these applies.    *)
(***************************************************************************)
C14_LayoutPreference ==
  (/\ AfterFixateChannels
   /\ InChans = OutChans
   /\ HasField(ins, "positions")
   /\ HasField(outs0, "positions")) =>
    LET cand == outs0.positions
        fit == FittingArrays(cand, OutChans) IN
    IF cand.k = "array" /\ Len(cand.a) = OutChans
      THEN outs.positions = cand
    ELSE IF \E i \in 1..Len(ArraysOf(cand)) : ArraysOf(cand)[i] = ins.positions
      THEN outs.positions = ins.positions
    ELSE IF fit # <<>>
      THEN outs.positions = fit[1]
    ELSE OutChans <= 8 => outs.positions = ArrayV(DefaultPositions[OutChans])

C14_Witness ==
  /\ AfterFixateChannels
  /\ InChans = 6
  /\ OutChans = 6
  /\ ins.positions = ArrayV(DefinedArray(6))
  /\ outs0.positions = LayoutsV(<<ArrayV(SixAlt), ArrayV(DefinedArray(6))>>)
  /\ outs.positions = ins.positions

\* neither the candidate nor the input yields a layout of the fixated count
NoLayoutResolvable ==
  /\ AfterFixateChannels
  /\ FittingArrays(outs0.positions, OutChans) = <<>>
  /\ ~(/\ InChans = OutChans
       /\ HasField(ins, "positions")
       /\ \/ ~HasField(outs0, "positions")
          \/ \E i \in 1..Len(ArraysOf(outs0.positions)) :
               ArraysOf(outs0.positions)[i] = ins.positions)

\* the rows the layout table is stated to have
StatedRow(n) ==
  CASE n = 1 -> <<"MONO">>
    [] n = 2 -> <<"FL", "FR">>
    [] n = 3 -> <<"FL", "FR", "LFE">>
    [] n = 4 -> <<"FL", "FR", "RL", "RR">>
    [] n = 5 -> <<"FL", "FR", "RL", "RR", "FC">>
    [] n = 6 -> <<"FL", "FR", "RL", "RR", "FC", "LFE">>
    [] n = 7 -> <<"FL", "FR", "RL", "RR", "FC", "LFE", "RC">>
    [] n = 8 -> <<"FL", "FR", "RL", "RR", "FC", "LFE", "SL", "SR">>

C16_NoLayoutAboveEight ==
  (NoLayoutResolvable /\ OutChans > 8) => ~HasField(outs, "positions")

(***************************************************************************)
(* C17 as stated: fixating a valid fixed descriptor against a copy of      *)
(* itself as the sole candidate leaves the candidate equal to it, whatever *)
(* its channel count and with or without a layout field.                   *)
(***************************************************************************)
C17_AsStated ==
  (pc = "fixed" /\ outs0 = ins) => outs = ins

(***************************************************************************)
(* C17 amended: fixating a valid fixed descriptor against a copy of itself *)
(* leaves the candidate equal to it when it carries a layout field or has  *)
(* at most 2 or more than 8 channels; a descriptor of 3 to 8 channels with *)
(* no layout field comes back with the default layout of its count added   *)
(* and every other field unchanged.                                        *)
(***************************************************************************)
C17_Idempotent ==
  (pc = "fixed" /\ outs0 = ins) =>
    IF HasField(ins, "positions") \/ InChans <= 2 \/ InChans > 8
      THEN outs = ins
      ELSE outs = SetField(ins, "positions", ArrayV(StatedRow(InChans)))

C17_Witness ==
  /\ pc = "fixed"
  /\ outs0 = ins
  /\ ins.name = "int"
  /\ ins.signed = BoolV(0)
  /\ ins.channels = IntV(6)
  /\ ins.positions = ArrayV(NoneArray(6))
  /\ outs = ins

(***************************************************************************)
(* Vocabulary of the set_caps and transform properties.                    *)
(***************************************************************************)
\* a descriptor the boundary is stated to reject
Malformed(st) ==
  \/ ~HasField(st, "channels")
  \/ ~HasField(st, "width")
  \/ ~HasField(st, "rate")
  \/ GetInt(st, "width") /\ st.width.v # 8 /\ ~HasField(st, "endianness")
  \/ st.name = "int" /\ ~HasField(st, "signed")
  \/ st.name = "int" /\ ~HasField(st, "depth")
  \/ /\ st.name = "int"
     /\ GetInt(st, "depth")
     /\ GetInt(st, "width")
     /\ st.depth.v > st.width.v
AfterSetCaps == pc \in {"negotiated", "not_negotiated", "transformed"}
\* whole samples in the input buffer, by the bytes they take
WholeSamples(n) ==
  /\ n >= 0
  /\ n * ctx.in.unit_size <= inbuf.size
  /\ inbuf.size < (n + 1) * ctx.in.unit_size

(***************************************************************************)
(* C18: gst_audio_convert_parse_caps fails, without clamping, on an        *)
(* integer descriptor with depth > width and on a descriptor missing       *)
(* channels, width, rate, endianness (width # 8) or, for integer, signed   *)
(* or depth; and when either descriptor fails to parse,                    *)
(* gst_audio_convert_set_caps returns failure without calling              *)
(* audio_convert_prepare_context.                                          *)
(***************************************************************************)
C18_MalformedRejected ==
  AfterSetCaps =>
    /\ \A st \in {incaps, outcaps} :
         Malformed(st) => (~ParseCaps(st).ok /\ ParseCaps(st).fmt = CleanFmt)
    /\ (Malformed(incaps) \/ Malformed(outcaps)
        \/ ~ParseCaps(incaps).ok \/ ~ParseCaps(outcaps).ok) =>
         /\ set_caps_ret = "FALSE"
         /\ prepare_calls = 0
         /\ ctx = NoCtx
         /\ pc = "not_negotiated"

C18_Witness ==
  /\ pc = "not_negotiated"
  /\ incaps \in GoodFormats
  /\ outcaps.name = "int"
  /\ outcaps.width = IntV(16)
  /\ outcaps.depth = IntV(24)
  /\ set_caps_ret = "FALSE"
  /\ prepare_calls = 0

(***************************************************************************)
(* C19: in gst_audio_convert_transform, if the input buffer is smaller     *)
(* than the required input byte count or the output buffer smaller than    *)
(* the required output byte count, the call returns an error and neither   *)
(* audio_convert_convert nor the silence fill runs: no byte of the output  *)
(* buffer is written.                                                      *)
(***************************************************************************)
C19_WrongSizeWritesNothing ==
  pc = "transformed" =>
    \A n \in 0..MaxBufSize :
      (/\ WholeSamples(n)
       /\ \/ inbuf.size < n * ctx.in.unit_size
          \/ outbuf.size < n * ctx.out.unit_size)
      => /\ conv.flow = "ERROR"
         /\ conv.convert_calls = 0
         /\ conv.silence_calls = 0
         /\ conv.written = 0

C19_Witness ==
  /\ pc = "transformed"
  /\ ctx.in.unit_size = 4
  /\ ctx.out.unit_size = 8
  /\ inbuf.size = 10
  /\ ~inbuf.gap
  /\ outbuf.size = 12
  /\ conv.flow = "ERROR"
  /\ conv.written = 0

(***************************************************************************)
(* C20: for every successfully parsed format the unit size is              *)
(* (width * channels) / 8 bytes, and gst_audio_convert_transform converts  *)
(* exactly floor(input_buffer_size / input_unit_size) samples, ignoring    *)
(* trailing bytes (width 16, 2 channels: unit size 4, a 10-byte buffer     *)
(* yields 2 samples).                                                      *)
(***************************************************************************)
C20_UnitSize ==
  /\ pc \in {"negotiated", "transformed"} =>
       /\ 8 * ctx.in.unit_size <= incaps.width.v * incaps.channels.v
       /\ incaps.width.v * incaps.channels.v < 8 * (ctx.in.unit_size + 1)
       /\ 8 * ctx.out.unit_size <= outcaps.width.v * outcaps.channels.v
       /\ outcaps.width.v * outcaps.channels.v < 8 * (ctx.out.unit_size + 1)
       /\ (incaps.width = IntV(16) /\ incaps.channels = IntV(2))
            => ctx.in.unit_size = 4
  /\ pc = "transformed" =>
       /\ WholeSamples(conv.samples)
       /\ conv.convert_calls = 1 => conv.converted = conv.samples
       /\ (conv.flow = "OK" /\ conv.samples > 0) =>
            /\ conv.convert_calls + conv.silence_calls = 1
            /\ conv.written = conv.samples * ctx.out.unit_size
       /\ (ctx.in.unit_size = 4 /\ inbuf.size = 10) => conv.samples = 2

C20_Witness ==
  /\ pc = "transformed"
  /\ incaps.width = IntV(16)
  /\ incaps.channels = IntV(2)
  /\ ctx.in.unit_size = 4
  /\ inbuf.size = 10
  /\ conv.flow = "OK"
  /\ conv.convert_calls = 1
  /\ conv.converted = 2

(***************************************************************************)
(* C21: for caps of several structures, what is emitted for structure j    *)
(* depends on structure j only: a structure whose channel count is not a   *)
(* single fixed value gets the Tier B channel range [1, 11] whatever       *)
(* channel counts the structures before it had.                            *)
(***************************************************************************)
C21_StructuresIndependent ==
  \A i \in EmittedAt({"B"}) :
    ~FixedChannels(InputOf(emitted[i])) =>
      emitted[i].st.channels = RangeV(1, 11)

\* an integer input carries a depth within its width
ValidFixedInput(st) ==
  /\ GetInt(st, "width")
  /\ st.name = "int" =>
       (GetInt(st, "depth") /\ st.depth.v <= st.width.v)
\* the candidate admits a width and a depth that go together
AdmitsValidDepth(st) ==
  \E w \in ValSet(st.width) : \E d \in ValSet(st.depth) : d <= w

(***************************************************************************)
(* C22: the format gst_audio_convert_fixate_caps produces is valid: for    *)
(* every valid fixed input and every integer candidate admitting at least  *)
(* one combination with depth <= width, the fixated output has             *)
(* depth <= width.                                                         *)
(***************************************************************************)
C22_FixatedDepthWithinWidth ==
  (/\ pc = "fixed"
   /\ ValidFixedInput(ins)
   /\ outs0.name = "int"
   /\ AdmitsValidDepth(outs0)
   /\ GetInt(outs, "width")
   /\ GetInt(outs, "depth"))
  => outs.depth.v <= outs.width.v

(***************************************************************************)
(* Vocabulary of the GstFDSet properties.                                  *)
(***************************************************************************)
\* the set watches f for reading / for writing
WatchedForRead(f) ==
  IF fdmode = "poll" THEN "POLLIN" \in pollfds[fd_idx[f]].events
  ELSE f \in readfds
WatchedForWrite(f) ==
  IF fdmode = "poll" THEN "POLLOUT" \in pollfds[fd_idx[f]].events
  ELSE f \in writefds

(***************************************************************************)
(* C23: read interest and write interest of an fd are independent in poll  *)
(* mode as in select mode: after any sequence of ctl calls an added fd is  *)
(* watched for reading iff its last ctl_read was active and for writing    *)
(* iff its last ctl_write was active.                                      *)
(***************************************************************************)
C23_InterestsIndependent ==
  \A f \in added :
    /\ WatchedForRead(f) = last_read[f]
    /\ WatchedForWrite(f) = last_write[f]

(***************************************************************************)
(* C24: in a poll-mode set, after any sequence of add_fd and remove_fd     *)
(* calls, every added fd has 0 <= idx < last_pollfds, its slot holds its   *)
(* descriptor, no two added fds share a slot, and add_fd never overwrites  *)
(* the slot of another added fd.                                           *)
(***************************************************************************)
C24_SlotsConsistent ==
  fdmode = "poll" =>
    /\ \A f \in added :
         /\ 0 <= fd_idx[f]
         /\ fd_idx[f] < last_pollfds
         /\ pollfds[fd_idx[f]].fd = f
    /\ \A f, g \in added : f # g => fd_idx[f] # fd_idx[g]

C24_Witness ==
  /\ fdmode = "poll"
  /\ added = {1, 3}
  /\ fd_idx[1] = 0
  /\ fd_idx[3] = 2
  /\ fd_idx[2] = -1
  /\ last_pollfds = 3
  /\ pollfds[1].fd = -1
  /\ free = -1

====
